---- MODULE Spec2Model ----
(***************************************************************************)
(* The bss-app ledger server: an express application whose route handlers  *)
(* are async functions over three MongoDB collections (users,              *)
(* transactions, blocks).  Every `await` of a storage call is a point at   *)
(* which other handlers run, so each handler is a sequence of atomic       *)
(* steps, one per storage call, each step including the synchronous code   *)
(* that follows the call up to the next one.                               *)
(*                                                                         *)
(* The repository holds three versions of the server: src/blockchain.js,   *)
(* src/unnamed/part_000 (the same routes behind express-validator checks)  *)
(* and src/unnamed/part_001 (blockchain.js without the register and        *)
(* history routes).  `variant` says which validation runs; a run of        *)
(* part_001 is a run of blockchain.js in which no register or history      *)
(* request arrives, so its behaviours are among those of "blockchain".     *)
(***************************************************************************)
EXTENDS Integers, Sequences, FiniteSets, Bags, TLC

VARIABLES
    variant,        \* which version of the server runs
    API_KEY,        \* process.env.API_KEY: the secret, or "undefined" when it is not set
    db,             \* the module-level handle: "undefined" | "connected" | "exited"
    users,          \* collection 'users': sequence of [address, balance]
    transactions,   \* collection 'transactions': sequence of records
    blocks,         \* collection 'blocks': sequence of records
    reqs,           \* the handlers in flight (a bag): each request with its handler's position
    received,       \* the number of requests received so far
    answered,       \* the number of responses sent so far
    last,           \* <<the request answered last, with its response>>
    serial,         \* TRUE: the client sends a request only after the previous response
    pre,            \* serial runs: the collections as they were when the last request arrived
    registered      \* history: the accounts as they were created (never updated)

vars == <<variant, API_KEY, db, users, transactions, blocks, reqs, received, answered,
          last, serial, pre, registered>>

\* ---------------------------------------------------------------- bounds

MaxReq == 2

\* ---------------------------------------------------------------- domains

Addr == {"A", "B"}

Amounts == {-1, 0, 1, 2}

Variants == {"blockchain", "validated"}

\* The x-api-key header of a request: the secret, another string, or none
\* ("undefined": req.headers['x-api-key'] of a request without the header).
Headers == {"secret", "wrong", "undefined"}

\* process.env.API_KEY: set to the secret, or not set.
Secrets == {"secret", "undefined"}

\* A request field that may be omitted: <<>> is JavaScript's undefined, <<n>> the value n.
Opt(S) == {<<>>} \cup {<<n>> : n \in S}

\* The databases a server process may find at start (MongoDB outlives the process):
\* an empty one, and one with three accounts, of which "C" receives no request.
SeedUsers ==
    { <<>>,
      <<[address |-> "A", balance |-> 2], [address |-> "B", balance |-> 0],
        [address |-> "C", balance |-> 1]>> }

\* ---------------------------------------------------------------- JavaScript values

\* !v for an optional number: undefined and 0 are falsy.
Falsy(v) == v = <<>> \/ v[1] = 0

\* !s for a string: the empty string is falsy.
FalsyStr(s) == s = ""

\* v || 0
OrZero(v) == IF Falsy(v) THEN 0 ELSE v[1]

\* ---------------------------------------------------------------- storage

\* db.collection('users').findOne({address}): the first matching document, or null (<<>>).
RECURSIVE FindOne(_, _)
FindOne(coll, address) ==
    IF coll = <<>> THEN <<>>
    ELSE IF Head(coll).address = address THEN <<Head(coll)>>
    ELSE FindOne(Tail(coll), address)

\* updateOne({address}, {$inc: {balance: delta}}): the first matching document only;
\* no document matching changes nothing.
RECURSIVE IncOne(_, _, _)
IncOne(coll, address, delta) ==
    IF coll = <<>> THEN <<>>
    ELSE IF Head(coll).address = address
         THEN <<[Head(coll) EXCEPT !.balance = @ + delta]>> \o Tail(coll)
    ELSE <<Head(coll)>> \o IncOne(Tail(coll), address, delta)

\* find({$or: [{sender: address}, {receiver: address}]}).toArray()
RECURSIVE FindByParticipant(_, _)
FindByParticipant(coll, address) ==
    IF coll = <<>> THEN <<>>
    ELSE (IF Head(coll).sender = address \/ Head(coll).receiver = address
          THEN <<Head(coll)>> ELSE <<>>)
         \o FindByParticipant(Tail(coll), address)

\* ---------------------------------------------------------------- request validation

\* POST /users/register: blockchain.js rejects with 400 when `!address || !initialBalance`;
\* part_000 checks body('address').isString().notEmpty() and
\* body('initialBalance').isNumeric().optional() (every number is numeric).
ValidRegister(v, address, initialBalance) ==
    IF v = "validated"
    THEN ~FalsyStr(address)
    ELSE ~(FalsyStr(address) \/ Falsy(initialBalance))

\* POST /transactions/send: blockchain.js and part_001 reject with 400 when
\* `!sender || !receiver || !amount`; part_000 checks sender and receiver
\* isString().notEmpty() and amount isNumeric().notEmpty() (every supplied number passes).
ValidSend(v, sender, receiver, amount) ==
    IF v = "validated"
    THEN ~FalsyStr(sender) /\ ~FalsyStr(receiver) /\ amount # <<>>
    ELSE ~(FalsyStr(sender) \/ FalsyStr(receiver) \/ Falsy(amount))

\* POST /mine: `!minerAddress`, or body('minerAddress').isString().notEmpty().
ValidMine(v, minerAddress) == ~FalsyStr(minerAddress)

Valid(v, route, address, receiver, amount) ==
    CASE route = "register" -> ValidRegister(v, address, amount)
      [] route = "send"     -> ValidSend(v, address, receiver, amount)
      [] route = "mine"     -> ValidMine(v, address)
      [] OTHER              -> TRUE

\* The handler's first storage call.
FirstStep(route) ==
    CASE route = "register" -> "findExisting"
      [] route = "balance"  -> "findUser"
      [] route = "send"     -> "findSender"
      [] route = "mine"     -> "findMiner"
      [] route = "history"  -> "query"

\* ---------------------------------------------------------------- requests

\* A request and its handler's state: pc is the storage call it waits for, senderUser
\* the handler's local, status/balance/list the response (status 0: none yet).
Request(apiKey, route, address, receiver, amount, pc, status) ==
    [apiKey |-> apiKey, route |-> route, address |-> address, receiver |-> receiver,
     amount |-> amount, pc |-> pc, senderUser |-> <<>>, status |-> status,
     balance |-> <<>>, list |-> <<>>]

NoneInFlight == reqs = EmptyBag

Snapshot == [users |-> users, transactions |-> transactions, blocks |-> blocks]

\* The handler of request r has moved on and is r2.
Replace(r, r2) == (reqs (-) SetToBag({r})) (+) SetToBag({r2})

\* The request with its response; the handler's locals are gone.
Answered(r, code, balance, list) ==
    [r EXCEPT !.pc = "done", !.senderUser = <<>>,
              !.status = code, !.balance = balance, !.list = list]

\* res.status(code).json(...): the handler of request r is over.
Respond(r, code, balance, list) ==
    /\ reqs' = reqs (-) SetToBag({r})
    /\ last' = <<Answered(r, code, balance, list)>>
    /\ answered' = answered + 1

\* The handler of request r goes on to its next storage call.
Goto(r, pc) ==
    /\ reqs' = Replace(r, [r EXCEPT !.pc = pc])
    /\ UNCHANGED <<last, answered>>

\* ---------------------------------------------------------------- actions

\* MongoClient.connect(...).then(client => { db = client.db('bss_app') })
Connect ==
    /\ db = "undefined"
    /\ db' = "connected"
    /\ UNCHANGED <<variant, API_KEY, users, transactions, blocks, reqs, received, answered,
                   last, serial, pre, registered>>

\* MongoClient.connect(...).catch(error => { process.exit(1) }): the process is gone.
ConnectFail ==
    /\ db = "undefined"
    /\ db' = "exited"
    /\ UNCHANGED <<variant, API_KEY, users, transactions, blocks, reqs, received, answered,
                   last, serial, pre, registered>>

\* The API key middleware: `apiKey !== API_KEY` answers 401, otherwise next().
Authorized(apiKey) == apiKey = API_KEY

\* The handler's synchronous start: the request validation answers 400;
\* `db.collection` on the undefined handle throws inside the try block, which
\* answers 500; otherwise the handler waits for its first storage call.
Start(apiKey, route, address, receiver, amount) ==
    IF ~Valid(variant, route, address, receiver, amount)
    THEN Request(apiKey, route, address, receiver, amount, "done", 400)
    ELSE IF db = "undefined"
    THEN Request(apiKey, route, address, receiver, amount, "done", 500)
    ELSE Request(apiKey, route, address, receiver, amount, FirstStep(route), 0)

\* A request arrives: the middleware answers 401 (the handler does not run and the
\* body is not read), or the handler runs up to its first storage call.
Receive(apiKey, route, address, receiver, amount) ==
    /\ db # "exited"
    /\ received < MaxReq
    /\ serial => NoneInFlight
    /\ received' = received + 1
    /\ LET r == IF Authorized(apiKey)
                THEN Start(apiKey, route, address, receiver, amount)
                ELSE Request(apiKey, route, "", "", <<>>, "done", 401) IN
       IF r.pc = "done"
       THEN reqs' = reqs /\ last' = <<r>> /\ answered' = answered + 1
       ELSE reqs' = reqs (+) SetToBag({r}) /\ UNCHANGED <<last, answered>>
    /\ pre' = IF serial THEN Snapshot ELSE pre
    /\ UNCHANGED <<variant, API_KEY, db, users, transactions, blocks, serial, registered>>

\* POST /users/register: findOne({address}), then 400 when a user exists.
FindExisting(r) ==
    /\ r.pc = "findExisting"
    /\ IF FindOne(users, r.address) # <<>>
       THEN Respond(r, 400, <<>>, <<>>)
       ELSE Goto(r, "insertUser")
    /\ UNCHANGED <<variant, API_KEY, db, users, transactions, blocks, received, serial, pre, registered>>

\* POST /users/register: insertOne(newUser), then 201.
InsertUser(r) ==
    /\ r.pc = "insertUser"
    /\ LET newUser == [address |-> r.address, balance |-> OrZero(r.amount)] IN
       /\ users' = Append(users, newUser)
       /\ registered' = Append(registered, newUser)
    /\ Respond(r, 201, <<>>, <<>>)
    /\ UNCHANGED <<variant, API_KEY, db, transactions, blocks, received, serial, pre>>

\* GET /balance/:address: findOne, then 404 or the balance.
FindUser(r) ==
    /\ r.pc = "findUser"
    /\ LET user == FindOne(users, r.address) IN
       IF user = <<>>
       THEN Respond(r, 404, <<>>, <<>>)
       ELSE Respond(r, 200, <<user[1].balance>>, <<>>)
    /\ UNCHANGED <<variant, API_KEY, db, users, transactions, blocks, received, serial, pre, registered>>

\* POST /transactions/send: senderUser = await findOne({address: sender})
FindSender(r) ==
    /\ r.pc = "findSender"
    /\ reqs' = Replace(r, [r EXCEPT !.pc = "findReceiver",
                                    !.senderUser = FindOne(users, r.address)])
    /\ UNCHANGED <<variant, API_KEY, db, users, transactions, blocks, received, answered,
                   last, serial, pre, registered>>

\* The comparison with its operands exchanged.
InsufficientSwapped(senderUser, amount) == amount < senderUser.balance

\* senderUser.balance < amount
Insufficient(senderUser, amount) == senderUser.balance < amount

\* POST /transactions/send: receiverUser = await findOne({address: receiver}), then
\* 404 when either is missing and 400 when senderUser.balance < amount.
FindReceiver(r) ==
    /\ r.pc = "findReceiver"
    /\ LET receiverUser == FindOne(users, r.receiver) IN
       IF r.senderUser = <<>> \/ receiverUser = <<>>
       THEN Respond(r, 404, <<>>, <<>>)
       ELSE IF Insufficient(r.senderUser[1], r.amount[1])
       THEN Respond(r, 400, <<>>, <<>>)
       ELSE Goto(r, "debit")
    /\ UNCHANGED <<variant, API_KEY, db, users, transactions, blocks, received, serial, pre, registered>>

\* POST /transactions/send: updateOne({address: sender}, {$inc: {balance: -amount}})
Debit(r) ==
    /\ r.pc = "debit"
    /\ users' = IncOne(users, r.address, 0 - r.amount[1])
    /\ Goto(r, "credit")
    /\ UNCHANGED <<variant, API_KEY, db, transactions, blocks, received, serial, pre, registered>>

\* The credit written with $set from the receiver's balance as it was read before
\* the debit (for a transfer to oneself, the balance read into senderUser).
CreditSet(r) ==
    /\ r.pc = "credit"
    /\ LET stored == FindOne(users, r.receiver)[1].balance
           read == IF r.receiver = r.address THEN r.senderUser[1].balance ELSE stored IN
       users' = IncOne(users, r.receiver, read + r.amount[1] - stored)
    /\ Goto(r, "insertTx")
    /\ UNCHANGED <<variant, API_KEY, db, transactions, blocks, received, serial, pre, registered>>

\* The credit applied to the sender's document instead of the receiver's.
CreditSender(r) ==
    /\ r.pc = "credit"
    /\ users' = IncOne(users, r.address, r.amount[1])
    /\ Goto(r, "insertTx")
    /\ UNCHANGED <<variant, API_KEY, db, transactions, blocks, received, serial, pre, registered>>

\* POST /transactions/send: updateOne({address: receiver}, {$inc: {balance: +amount}})
Credit(r) ==
    /\ r.pc = "credit"
    /\ users' = IncOne(users, r.receiver, r.amount[1])
    /\ Goto(r, "insertTx")
    /\ UNCHANGED <<variant, API_KEY, db, transactions, blocks, received, serial, pre, registered>>

\* The record written over the collection instead of inserted into it.
InsertTxReplace(r) ==
    /\ r.pc = "insertTx"
    /\ transactions' =
          <<[sender |-> r.address, receiver |-> r.receiver, amount |-> r.amount[1]]>>
    /\ Respond(r, 200, <<>>, <<>>)
    /\ UNCHANGED <<variant, API_KEY, db, users, blocks, received, serial, pre, registered>>

\* POST /transactions/send: insertOne(transaction), then 200.
InsertTx(r) ==
    /\ r.pc = "insertTx"
    /\ transactions' = Append(transactions,
            [sender |-> r.address, receiver |-> r.receiver, amount |-> r.amount[1]])
    /\ Respond(r, 200, <<>>, <<>>)
    /\ UNCHANGED <<variant, API_KEY, db, users, blocks, received, serial, pre, registered>>

\* POST /mine: findOne({address: minerAddress}), then 404 when there is none.
FindMiner(r) ==
    /\ r.pc = "findMiner"
    /\ IF FindOne(users, r.address) = <<>>
       THEN Respond(r, 404, <<>>, <<>>)
       ELSE Goto(r, "reward")
    /\ UNCHANGED <<variant, API_KEY, db, users, transactions, blocks, received, serial, pre, registered>>

\* const reward = 10
Reward == 10

\* The update written with $set where the code has $inc.
CreditRewardSet(r) ==
    /\ r.pc = "reward"
    /\ users' = IncOne(users, r.address, Reward - FindOne(users, r.address)[1].balance)
    /\ Goto(r, "insertBlock")
    /\ UNCHANGED <<variant, API_KEY, db, transactions, blocks, received, serial, pre, registered>>

\* POST /mine: updateOne({address: minerAddress}, {$inc: {balance: reward}})
CreditReward(r) ==
    /\ r.pc = "reward"
    /\ users' = IncOne(users, r.address, Reward)
    /\ Goto(r, "insertBlock")
    /\ UNCHANGED <<variant, API_KEY, db, transactions, blocks, received, serial, pre, registered>>

\* POST /mine: insertOne(block), then 200.
InsertBlock(r) ==
    /\ r.pc = "insertBlock"
    /\ blocks' = Append(blocks, [miner |-> r.address, reward |-> Reward])
    /\ Respond(r, 200, <<>>, <<>>)
    /\ UNCHANGED <<variant, API_KEY, db, users, transactions, received, serial, pre, registered>>

\* The handler without its `transactions.length === 0` branch: an empty list is
\* answered as a success.
QueryEmptyOk(r) ==
    /\ r.pc = "query"
    /\ Respond(r, 200, <<>>, FindByParticipant(transactions, r.address))
    /\ UNCHANGED <<variant, API_KEY, db, users, transactions, blocks, received, serial, pre, registered>>

\* GET /transactions/:address (/transactions/user/:address in part_000): the query,
\* then 404 when it found nothing and the list otherwise.
Query(r) ==
    /\ r.pc = "query"
    /\ LET found == FindByParticipant(transactions, r.address) IN
       IF Len(found) = 0
       THEN Respond(r, 404, <<>>, <<>>)
       ELSE Respond(r, 200, <<>>, found)
    /\ UNCHANGED <<variant, API_KEY, db, users, transactions, blocks, received, serial, pre, registered>>

\* A catch block that logs the error and sends no response.
StorageFailSilent(r) ==
    /\ reqs' = reqs (-) SetToBag({r})
    /\ UNCHANGED <<variant, API_KEY, db, users, transactions, blocks, received, answered,
                   last, serial, pre, registered>>

\* The storage call a handler is waiting for rejects (the store is unreachable or
\* times out) without having been applied: the handler's catch block answers 500.
StorageFail(r) ==
    /\ Respond(r, 500, <<>>, <<>>)
    /\ UNCHANGED <<variant, API_KEY, db, users, transactions, blocks, received, serial, pre, registered>>

\* ---------------------------------------------------------------- specification

\* The server as its clients use it: every request carries the configured key.
Init ==
    /\ variant \in Variants
    /\ API_KEY = "secret"
    /\ db = "undefined"
    /\ users \in SeedUsers
    /\ transactions = <<>>
    /\ blocks = <<>>
    /\ reqs = EmptyBag
    /\ received = 0
    /\ answered = 0
    /\ last = <<>>
    /\ serial \in BOOLEAN
    /\ pre = [users |-> users, transactions |-> <<>>, blocks |-> <<>>]
    /\ registered = users

\* The requests that may arrive with header apiKey.
Arrive(apiKey) ==
    \/ \E address \in Addr, initialBalance \in Opt(Amounts) :
          Receive(apiKey, "register", address, "", initialBalance)
    \/ \E address \in Addr : Receive(apiKey, "balance", address, "", <<>>)
    \/ \E sender \in Addr, receiver \in Addr, amount \in Opt(Amounts) :
          Receive(apiKey, "send", sender, receiver, amount)
    \/ \E minerAddress \in Addr : Receive(apiKey, "mine", minerAddress, "", <<>>)
    \/ \E address \in Addr : Receive(apiKey, "history", address, "", <<>>)

\* A handler in flight resumes: its storage call returned, or failed.
Handlers ==
    \/ \E r \in DOMAIN reqs : FindExisting(r)
    \/ \E r \in DOMAIN reqs : InsertUser(r)
    \/ \E r \in DOMAIN reqs : FindUser(r)
    \/ \E r \in DOMAIN reqs : FindSender(r)
    \/ \E r \in DOMAIN reqs : FindReceiver(r)
    \/ \E r \in DOMAIN reqs : Debit(r)
    \/ \E r \in DOMAIN reqs : Credit(r)
    \/ \E r \in DOMAIN reqs : InsertTx(r)
    \/ \E r \in DOMAIN reqs : FindMiner(r)
    \/ \E r \in DOMAIN reqs : CreditReward(r)
    \/ \E r \in DOMAIN reqs : InsertBlock(r)
    \/ \E r \in DOMAIN reqs : Query(r)
    \/ \E r \in DOMAIN reqs : StorageFail(r)

Next ==
    \/ Connect
    \/ ConnectFail
    \/ Arrive(API_KEY)
    \/ Handlers

Spec == Init /\ [][Next]_vars

\* Any key configuration and any header, the requests arriving one at a time.
InitAuth ==
    /\ variant \in Variants
    /\ API_KEY \in Secrets
    /\ db = "undefined"
    /\ users \in SeedUsers
    /\ transactions = <<>>
    /\ blocks = <<>>
    /\ reqs = EmptyBag
    /\ received = 0
    /\ answered = 0
    /\ last = <<>>
    /\ serial = TRUE
    /\ pre = [users |-> users, transactions |-> <<>>, blocks |-> <<>>]
    /\ registered = users

NextAuth ==
    \/ Connect
    \/ ConnectFail
    \/ \E apiKey \in Headers : Arrive(apiKey)
    \/ Handlers

SpecAuth == InitAuth /\ [][NextAuth]_vars

\* Any configuration and any header, with requests overlapping freely.
InitFair ==
    /\ variant \in Variants
    /\ API_KEY \in Secrets
    /\ db = "undefined"
    /\ users \in SeedUsers
    /\ transactions = <<>>
    /\ blocks = <<>>
    /\ reqs = EmptyBag
    /\ received = 0
    /\ answered = 0
    /\ last = <<>>
    /\ serial = FALSE
    /\ pre = [users |-> users, transactions |-> <<>>, blocks |-> <<>>]
    /\ registered = users

\* The event loop runs every continuation that is ready, and every storage call
\* returns or fails.
SpecFair == InitFair /\ [][NextAuth]_vars /\ WF_vars(Handlers)

\* ---------------------------------------------------------------- reading the state

\* The stored balance of an address (of its first document, the one findOne returns).
HasUser(coll, a) == FindOne(coll, a) # <<>>

BalanceOf(coll, a) == FindOne(coll, a)[1].balance

RECURSIVE SumBalances(_)
SumBalances(coll) ==
    IF coll = <<>> THEN 0 ELSE Head(coll).balance + SumBalances(Tail(coll))

\* The total amount of the transfers (of a positive amount) from sender a that have
\* passed the balance check and have not debited yet.
RECURSIVE PendingDebits(_, _)
PendingDebits(S, a) ==
    IF S = {} THEN 0
    ELSE LET r == CHOOSE x \in S : TRUE IN
         (IF r.route = "send" /\ r.pc = "debit" /\ r.address = a /\ r.amount[1] > 0
          THEN r.amount[1] * CopiesIn(r, reqs) ELSE 0)
         + PendingDebits(S \ {r}, a)

\* The request answered last is a `route` request and no handler is running.
LastIs(route) == NoneInFlight /\ last # <<>> /\ last[1].route = route

\* In a serial run: the collections are as when the last request arrived.
Unchanged == users = pre.users /\ transactions = pre.transactions /\ blocks = pre.blocks

\* ---------------------------------------------------------------- C1

\* C1 (as claimed): the transfers from one sender that have passed the balance check
\* and are about to debit never total more than the sender's stored balance, so no two
\* of them passed the check against the same, stale balance.
C1_NoStaleBalanceCheck ==
    \A a \in Addr :
        HasUser(users, a) /\ BalanceOf(users, a) >= 0
            => PendingDebits(DOMAIN reqs, a) <= BalanceOf(users, a)

\* ---------------------------------------------------------------- C2

\* C2 (as claimed): every stored balance is greater than or equal to zero.
C2_BalanceNeverNegative ==
    \A i \in 1..Len(users) : users[i].balance >= 0

\* ---------------------------------------------------------------- C3

\* C3 (as claimed): transfers alone never change the sum of all balances: once a
\* transfer request (of a positive amount) of a serial run is answered, the sum is
\* what it was when the request arrived.
C3_TransfersConserveSum ==
    /\ serial /\ LastIs("send")
    /\ last[1].amount # <<>> /\ last[1].amount[1] > 0
    => SumBalances(users) = SumBalances(pre.users)

\* ---------------------------------------------------------------- C4

\* A transfer (of a positive amount) other than `self` touching account a has
\* applied some but not all of its effects (sender debit, receiver credit, record).
PartiallyApplied(a, self) ==
    \E t \in DOMAIN reqs :
        /\ t # self \/ CopiesIn(t, reqs) > 1
        /\ t.route = "send"
        /\ t.pc \in {"credit", "insertTx"}
        /\ t.amount[1] > 0
        /\ a \in {t.address, t.receiver}

\* C4 (as claimed): no balance read, balance check of another transfer or history
\* query reads an account while a transfer touching it is partially applied.
C4_TransferAtomicToObservers ==
    [][\A r \in DOMAIN reqs :
          (FindUser(r) \/ FindSender(r) \/ Query(r)) => ~PartiallyApplied(r.address, r)]_vars

\* ---------------------------------------------------------------- C5

\* C5 (as claimed): in a serial run, after a transfer request (of a positive amount)
\* answered with anything but success, the collections are as they were when the
\* request arrived.
C5_FailedTransferChangesNothing ==
    /\ serial /\ LastIs("send") /\ last[1].status # 200
    /\ last[1].amount # <<>> /\ last[1].amount[1] > 0
    => Unchanged

\* ---------------------------------------------------------------- C6

\* The last request was a transfer of more than its sender's balance.
C6_Case ==
    /\ serial /\ LastIs("send") /\ last[1].amount # <<>>
    /\ HasUser(pre.users, last[1].address)
    /\ last[1].amount[1] > BalanceOf(pre.users, last[1].address)

\* C6: a transfer of more than the sender's balance is never accepted and changes
\* nothing; it is answered 400 when the receiver exists and every storage call
\* returned (404 when the receiver is missing, 500 when a storage call failed or the
\* database handle was not yet set).
C6_OverdraftRejected ==
    C6_Case =>
        /\ last[1].status \in {400, 404, 500}
        /\ HasUser(pre.users, last[1].receiver) /\ last[1].status # 500
              => last[1].status = 400
        /\ ~HasUser(pre.users, last[1].receiver) /\ last[1].status # 500
              => last[1].status \in {400, 404}
        /\ Unchanged

C6_Witness ==
    /\ C6_Case
    /\ HasUser(pre.users, last[1].receiver)
    /\ last[1].status = 400

\* ---------------------------------------------------------------- C7

\* The last request was a successful transfer of n > 0 between two distinct accounts
\* in a serial run.
C7_Case ==
    /\ serial /\ LastIs("send") /\ last[1].status = 200
    /\ last[1].address # last[1].receiver
    /\ last[1].amount[1] > 0

\* The change a transfer of n from sender to receiver makes to the balance of address a.
C7_Delta(a, sender, receiver, n) ==
    IF a = sender THEN 0 - n ELSE IF a = receiver THEN n ELSE 0

\* C7: a successful transfer of n from A to B, alone, takes exactly n from A, gives
\* exactly n to B, leaves every other account as it was, and appends exactly one
\* record {sender: A, receiver: B, amount: n}.
C7_TransferMovesAmount ==
    C7_Case =>
        LET t == last[1] IN
        /\ BalanceOf(pre.users, t.address) >= t.amount[1]
        /\ Len(users) = Len(pre.users)
        /\ \A i \in 1..Len(users) :
              /\ users[i].address = pre.users[i].address
              /\ users[i].balance = pre.users[i].balance
                    + C7_Delta(users[i].address, t.address, t.receiver, t.amount[1])
        /\ transactions = Append(pre.transactions,
              [sender |-> t.address, receiver |-> t.receiver, amount |-> t.amount[1]])
        /\ blocks = pre.blocks

C7_Witness ==
    /\ C7_Case
    /\ last[1].address = "A" /\ last[1].receiver = "B"
    /\ BalanceOf(users, "A") < BalanceOf(pre.users, "A")
    /\ Len(users) > 2

\* ---------------------------------------------------------------- C8

\* C8 (as claimed): a transfer request with a zero or negative amount is never
\* answered with success.
C8_NonPositiveAmountRejected ==
    /\ last # <<>> /\ last[1].route = "send"
    /\ last[1].amount # <<>> /\ last[1].amount[1] <= 0
    => last[1].status # 200

\* ---------------------------------------------------------------- C9

\* C9 (as claimed): the users collection holds at most one account per address.
C9_AddressUnique ==
    \A i, j \in 1..Len(users) : users[i].address = users[j].address => i = j

\* ---------------------------------------------------------------- C10

\* C10 (as claimed): in a serial run, registering an address that has no account is
\* answered 201 (unless a storage call failed) and creates the account with the
\* given initialBalance, or 0 when it is omitted.
C10_RegisterNewAddress ==
    /\ serial /\ LastIs("register")
    /\ ~HasUser(pre.users, last[1].address)
    /\ last[1].status # 500
    => /\ last[1].status = 201
       /\ HasUser(users, last[1].address)
       /\ BalanceOf(users, last[1].address)
             = (IF last[1].amount = <<>> THEN 0 ELSE last[1].amount[1])

\* ---------------------------------------------------------------- C11

\* The number of block records naming miner a.
RECURSIVE BlocksFor(_, _)
BlocksFor(coll, a) ==
    IF coll = <<>> THEN 0
    ELSE (IF Head(coll).miner = a THEN 1 ELSE 0) + BlocksFor(Tail(coll), a)

\* The number of mine handlers for miner a that have credited the reward and have
\* not inserted their block record yet.
RECURSIVE Credited(_, _)
Credited(S, a) ==
    IF S = {} THEN 0
    ELSE LET r == CHOOSE x \in S : TRUE IN
         (IF r.route = "mine" /\ r.pc = "insertBlock" /\ r.address = a
          THEN CopiesIn(r, reqs) ELSE 0)
         + Credited(S \ {r}, a)

\* Every request received so far is a mine call that succeeded (one block record
\* each) or is still running with every storage call so far returned.
C11_OnlyMines ==
    /\ received > 0
    /\ received = Len(blocks) + BagCardinality(reqs)
    /\ \A r \in DOMAIN reqs : r.route = "mine"

\* C11: a successful mine call for M, alone, adds exactly 10 to M's balance, changes
\* no other balance and appends exactly one record {miner: M, reward: 10}; and
\* however k mine calls interleave, the balances are those the accounts were created
\* with plus 10 for each call that has credited (no credit is lost), one record each.
C11_MineCreditsReward ==
    /\ serial /\ LastIs("mine") /\ last[1].status = 200
       => /\ blocks = Append(pre.blocks, [miner |-> last[1].address, reward |-> 10])
          /\ transactions = pre.transactions
          /\ Len(users) = Len(pre.users)
          /\ \A i \in 1..Len(users) :
                /\ users[i].address = pre.users[i].address
                /\ users[i].balance = pre.users[i].balance
                      + (IF users[i].address = last[1].address THEN 10 ELSE 0)
    /\ C11_OnlyMines
       => /\ Len(users) = Len(registered)
          /\ \A i \in 1..Len(users) :
                users[i].balance = registered[i].balance
                    + 10 * (BlocksFor(blocks, users[i].address)
                            + Credited(DOMAIN reqs, users[i].address))
          /\ \A i \in 1..Len(blocks) : blocks[i].reward = 10

\* Two mine calls for A are in flight together, both credited.
C11_Witness ==
    /\ C11_OnlyMines
    /\ Credited(DOMAIN reqs, "A") = 2
    /\ BalanceOf(users, "A") = BalanceOf(registered, "A") + 20

\* ---------------------------------------------------------------- C12

\* C12: the reward credit and the block record happen together or not at all: after
\* a mine call that ran alone, whatever its answer, each balance has grown by 10 for
\* each block record added naming it, and by nothing else.
C12_RewardAtomic ==
    serial /\ LastIs("mine")
    => /\ Len(users) = Len(pre.users)
       /\ \A i \in 1..Len(users) :
             users[i].balance - pre.users[i].balance
                = 10 * (BlocksFor(blocks, users[i].address)
                        - BlocksFor(pre.blocks, users[i].address))

\* ---------------------------------------------------------------- C13

\* The x-api-key header of the request is missing or differs from the secret the
\* server was configured with.
C13_BadKey(r) == r.apiKey = "undefined" \/ r.apiKey # API_KEY

\* C13: a request whose x-api-key header is missing or does not match the configured
\* secret is answered 401 and changes nothing, whether or not API_KEY is set.
C13_BadKeyRejected ==
    NoneInFlight /\ last # <<>> /\ C13_BadKey(last[1])
    => last[1].status = 401 /\ Unchanged

\* ---------------------------------------------------------------- C14

\* Transfer record t has address a as its sender or its receiver.
Involves(t, a) == t.sender = a \/ t.receiver = a

\* The records of the log involving a, each as often as the log holds it, in log order.
InvolvingRecords(a) ==
    LET Test(t) == Involves(t, a) IN SelectSeq(transactions, Test)

C15_DebitedAndCredited(sender, receiver, amount) ==
    /\ Len(users) = Len(pre.users)
    /\ \A i \in 1..Len(users) :
          /\ users[i].address = pre.users[i].address
          /\ users[i].balance = pre.users[i].balance
                - (IF users[i].address = sender THEN amount ELSE 0)
                + (IF users[i].address = receiver THEN amount ELSE 0)

\* C15: the transfer log only grows, by one record per step, and only in the step
\* where a send handler that has passed its debit and its credit inserts its own
\* record and answers 200 (in a serial run the accounts then show that debit and that
\* credit); no other step, and so no rejected request, adds, alters or removes a
\* record.
C15_LogAppendOnly ==
    [][transactions' # transactions
       => \E r \in DOMAIN reqs :
             /\ r.route = "send" /\ r.pc = "insertTx"
             /\ transactions' = Append(transactions,
                    [sender |-> r.address, receiver |-> r.receiver, amount |-> r.amount[1]])
             /\ answered' = answered + 1
             /\ last'[1].status = 200 /\ last'[1].route = "send"
             /\ last'[1].address = r.address /\ last'[1].receiver = r.receiver
             /\ serial => C15_DebitedAndCredited(r.address, r.receiver, r.amount[1])]_vars

\* A second transfer has been recorded after a first one, in a serial run.
C15_Witness ==
    /\ serial /\ LastIs("send") /\ last[1].status = 200
    /\ Len(transactions) = 2
    /\ transactions[2] = [sender |-> last[1].address, receiver |-> last[1].receiver,
                          amount |-> last[1].amount[1]]

\* ---------------------------------------------------------------- C16

\* C16: every received request is answered exactly once (the requests answered and
\* the handlers still running always add up to the requests received), and whenever
\* a request is unanswered all requests received are eventually answered, those
\* arriving before the database handle is set and those whose storage call fails
\* included.
C16_EveryRequestAnswered ==
    /\ [](answered + BagCardinality(reqs) = received)
    /\ (answered < received) ~> (answered = received)

\* A request that arrived before the database handle was set has been answered 500.
C16_Witness ==
    /\ db = "undefined"
    /\ received > 0 /\ answered = received
    /\ last[1].status = 500

\* ---------------------------------------------------------------- C17

\* The sum of the amounts of the transfer records received by a, less those sent by a.
RECURSIVE NetTransferred(_, _)
NetTransferred(coll, a) ==
    IF coll = <<>> THEN 0
    ELSE (IF Head(coll).receiver = a THEN Head(coll).amount ELSE 0)
         - (IF Head(coll).sender = a THEN Head(coll).amount ELSE 0)
         + NetTransferred(Tail(coll), a)

\* C17: whenever no request is in flight, every account's balance is the balance it
\* was registered with, plus 10 for each block record naming it, plus the amounts of
\* the transfer records it received, minus those of the records it sent.
C17_ReplayReproducesBalances ==
    NoneInFlight
    => \A i \in 1..Len(users) :
          users[i].balance = registered[i].balance
              + 10 * BlocksFor(blocks, users[i].address)
              + NetTransferred(transactions, users[i].address)

\* ---------------------------------------------------------------- C18

\* The last request was a transfer of n > 0 from an existing account to itself, in a
\* serial run, and no storage call failed.
C18_Case ==
    /\ serial /\ LastIs("send") /\ last[1].status # 500
    /\ last[1].address = last[1].receiver
    /\ HasUser(pre.users, last[1].address)
    /\ last[1].amount # <<>> /\ last[1].amount[1] > 0

\* C18: a transfer of n > 0 from account A to itself is accepted when A holds at
\* least n, and then every balance, A's included, is as before and exactly one record
\* {sender: A, receiver: A, amount: n} is appended; when A holds less than n it is
\* rejected with 400 and nothing changes.
C18_SelfTransfer ==
    C18_Case =>
        LET t == last[1] IN
        IF BalanceOf(pre.users, t.address) >= t.amount[1]
        THEN /\ t.status = 200
             /\ users = pre.users
             /\ transactions = Append(pre.transactions,
                   [sender |-> t.address, receiver |-> t.address, amount |-> t.amount[1]])
             /\ blocks = pre.blocks
        ELSE t.status = 400 /\ Unchanged

\* A transfer from A to A has been accepted and recorded.
C18_Witness ==
    /\ C18_Case
    /\ last[1].status = 200
    /\ transactions # <<>>
    /\ transactions[Len(transactions)].sender = transactions[Len(transactions)].receiver

====
